---- MODULE Spec2Model ----
(***************************************************************************)
(* Model of src/domain.py: the OsintTool reconnaissance run.               *)
(*                                                                         *)
(* One control thread executes run_recon (get_ip, get_whois,               *)
(* get_dns_records, scan_common_ports, get_http_headers, save_results);    *)
(* scan_common_ports hands the port list to a ThreadPoolExecutor whose     *)
(* worker threads run check_port concurrently.                             *)
(*                                                                         *)
(* Python values are modelled as tagged records so that values of          *)
(* different Python types are never equal: [str |-> s], [int |-> n],       *)
(* [none |-> TRUE], [list |-> <<v, ...>>] and, for a dict, which keeps its *)
(* insertion order, [dict |-> << [k |-> key, v |-> value], ... >>].        *)
(***************************************************************************)
EXTENDS Integers, Sequences, FiniteSets, TLC

(***************************************************************************)
(* Bounds of the model.                                                    *)
(***************************************************************************)
\* The scan is modelled on the first NumScanned ports of common_ports.
NumScanned == 11

(***************************************************************************)
(* Python values.                                                          *)
(***************************************************************************)
PyStr(s) == [str |-> s]

PyInt(n) == [int |-> n]

PyNone == [none |-> TRUE]

PyList(xs) == [list |-> xs]

PyDict(items) == [dict |-> items]

Item(key, value) == [k |-> key, v |-> value]

IsStr(x) == DOMAIN x = {"str"}

IsDict(x) == DOMAIN x = {"dict"}

\* dict.keys(), in insertion order
Keys(d) == [i \in 1..Len(d.dict) |-> d.dict[i].k]

\* key in d
HasKey(d, key) == \E i \in 1..Len(d.dict) : d.dict[i].k = key

\* d[key]
Get(d, key) == d.dict[CHOOSE i \in 1..Len(d.dict) : d.dict[i].k = key].v

\* d[key] = value: a new key is appended, an old one keeps its place
SetItem(d, key, value) ==
    IF HasKey(d, key)
    THEN PyDict([i \in 1..Len(d.dict) |->
                    IF d.dict[i].k = key THEN Item(key, value) ELSE d.dict[i]])
    ELSE PyDict(Append(d.dict, Item(key, value)))

(***************************************************************************)
(* The targets given on the command line.  Chars gives the characters of   *)
(* the strings whose text the program inspects.                            *)
(***************************************************************************)
Targets == {"example.test", "a..b", "93.184.216.34", "999.999.999.999", "1234.1.1.1"}

Chars(s) ==
    CASE s = "example.test"    -> <<"e","x","a","m","p","l","e",".","t","e","s","t">>
      [] s = "a..b"            -> <<"a",".",".","b">>
      [] s = "93.184.216.34"   -> <<"9","3",".","1","8","4",".","2","1","6",".","3","4">>
      [] s = "999.999.999.999" -> <<"9","9","9",".","9","9","9",".","9","9","9",".","9","9","9">>
      [] s = "1234.1.1.1"      -> <<"1","2","3","4",".","1",".","1",".","1">>

Digits == {"0","1","2","3","4","5","6","7","8","9"}

\* \d{1,3} matched from position i: the positions at which the match may end
DigitRun(s, i) ==
    {j \in (i+1)..(i+3) : j <= Len(s) + 1 /\ \A k \in i..(j-1) : s[k] \in Digits}

\* (\d{1,3}\.) matched from any position of P
DigitsDot(s, P) ==
    {j + 1 : j \in {q \in UNION {DigitRun(s, p) : p \in P} : q <= Len(s) /\ s[q] = "."}}

\* $ matches at the end of the string and before a final newline
AtEnd(s, j) == j = Len(s) + 1 \/ (j = Len(s) /\ s[j] = "\n")

\* a classifier that also requires every group to be at most 255
is_ip_address_ranged(t) ==
    LET s == Chars(t)
        P3 == DigitsDot(s, DigitsDot(s, DigitsDot(s, {1})))
        run(i) == IF i > Len(s) \/ s[i] \notin Digits THEN 0
                  ELSE IF i + 1 > Len(s) \/ s[i+1] \notin Digits THEN 1
                  ELSE IF i + 2 > Len(s) \/ s[i+2] \notin Digits THEN 2 ELSE 3
        small(i) == \/ run(i) < 3
                    \/ s[i] \in {"0", "1"}
                    \/ s[i] = "2" /\ s[i+1] \in {"0", "1", "2", "3", "4"}
                    \/ s[i] = "2" /\ s[i+1] = "5" /\ s[i+2] \in {"0", "1", "2", "3", "4", "5"}
    IN  /\ \E j \in UNION {DigitRun(s, p) : p \in P3} : AtEnd(s, j)
        /\ \A i \in 1..Len(s) : (i = 1 \/ s[i-1] = ".") => small(i)

\* re.match(r'^(\d{1,3}\.){3}\d{1,3}$', target)
is_ip_address(t) ==
    LET s == Chars(t)
        P3 == DigitsDot(s, DigitsDot(s, DigitsDot(s, {1})))
    IN  \E j \in UNION {DigitRun(s, p) : p \in P3} : AtEnd(s, j)

(***************************************************************************)
(* The collaborators: what the network and the system answer.              *)
(***************************************************************************)
\* the labels of a host name, and the value of a run of digits
RECURSIVE Labels(_)
Labels(s) ==
    IF \E i \in 1..Len(s) : s[i] = "."
    THEN LET i == CHOOSE i \in 1..Len(s) : s[i] = "." /\ \A k \in 1..(i-1) : s[k] # "."
         IN  <<SubSeq(s, 1, i-1)>> \o Labels(SubSeq(s, i+1, Len(s)))
    ELSE <<s>>

DigitVal(c) == CHOOSE n \in 0..9 : ToString(n) = c

RECURSIVE Number(_)
Number(s) == IF s = <<>> THEN 0 ELSE 10 * Number(SubSeq(s, 1, Len(s)-1)) + DigitVal(s[Len(s)])

\* socket.gethostbyname(target): the name is IDNA-encoded before the lookup,
\* which raises UnicodeError for an empty label; otherwise the lookup gives
\* an address or raises socket.gaierror.
ResolvedAddress == "93.184.216.34"

\* a name whose last label is a number is in no zone: the lookup finds nothing
is_numeric_tld(t) ==
    LET L == Labels(Chars(t))
    IN  L[Len(L)] # <<>> /\ \A k \in 1..Len(L[Len(L)]) : L[Len(L)][k] \in Digits

gethostbyname(t) ==
    IF \E i \in 1..Len(Labels(Chars(t))) : Labels(Chars(t))[i] = <<>>
    THEN {"UnicodeError"}
    ELSE IF is_numeric_tld(t) THEN {"gaierror"}
    ELSE {"gaierror", ResolvedAddress}

\* whether the address given to connect_ex names a host: a dotted quad with
\* octets above 255 does not, and connect_ex raises socket.gaierror for it
IsHostAddress(a) ==
    LET L == Labels(Chars(a))
    IN  /\ Len(L) = 4
        /\ \A i \in 1..4 : L[i] # <<>> /\ (\A k \in 1..Len(L[i]) : L[i][k] \in Digits)
                           /\ Number(L[i]) <= 255

\* whois.whois(target) either raises or gives the registration data, of
\* which get_whois keeps five fields (emails replaced by [] when empty)
WhoisAnswers == {"raises", "found"}

simplified_whois ==
    PyDict(<< Item(PyStr("registrar"), PyStr("Example Registrar")),
              Item(PyStr("creation_date"), PyStr("1995-08-14 04:00:00")),
              Item(PyStr("expiration_date"), PyStr("None")),
              Item(PyStr("name_servers"), PyList(<<PyStr("a.iana-servers.net")>>)),
              Item(PyStr("emails"), PyList(<<>>)) >>)

\* get_dns_records.record_types
record_types == <<"A", "AAAA", "MX", "NS", "TXT", "SOA", "CNAME">>

\* the sets of record types for which dns.resolver.resolve gives an answer
DnsAnswerSets == { {}, {"A", "MX", "NS", "TXT", "SOA"},
                   {"A", "AAAA", "MX", "NS", "TXT", "SOA", "CNAME"} }

\* [str(rdata) for rdata in answers]
records(record_type) == PyList(<<PyStr(record_type)>>)

\* the port list written in descending order
common_ports_descending ==
    <<8443, 8080, 5900, 5060, 3389, 3306, 1433, 445, 443, 143, 139, 135, 115,
      110, 80, 53, 25, 23, 22, 21>>

\* scan_common_ports.common_ports
common_ports == <<21, 22, 23, 25, 53, 80, 110, 115, 135, 139, 143, 443, 445,
                  1433, 3306, 3389, 5060, 5900, 8080, 8443>>

\* a pool with one thread for each port of the list
max_workers_per_port == Len(common_ports)

\* ThreadPoolExecutor(max_workers=10)
max_workers == 10

\* the ports the model scans
ScannedPorts == SubSeq(common_ports, 1, NumScanned)

Tasks == 1..NumScanned

\* What one probe meets: socket.socket() raising OSError ("EMFILE"), or
\* connect_ex returning 0 ("open"), returning an error number ("refused",
\* "timeout"), or raising ("gaierror").
ConnectOutcomes == {"open", "refused", "timeout", "gaierror", "EMFILE"}

\* The networks a scan of a host address is checked against: every port
\* refuses the connection but the second one and the last one.
NetScenarios ==
    { [i \in Tasks |-> IF i = 2 THEN a ELSE IF i = NumScanned THEN b ELSE "refused"] :
        a \in ConnectOutcomes, b \in {"open", "refused"} }

\* an address that names no host makes every connect_ex raise
Networks(address) ==
    IF IsHostAddress(address) THEN NetScenarios ELSE {[i \in Tasks |-> "gaierror"]}

\* sock.connect_ex((ip, port)) when it returns
connect_ex(outcome) ==
    CASE outcome = "open"    -> 0
      [] outcome = "refused" -> 111
      [] outcome = "timeout" -> 11

Raises(outcome) == outcome \in {"gaierror", "EMFILE"}

\* the services database read by socket.getservbyport: the usual one, and
\* that of a system without one
ServiceNames ==
    [p \in {21, 22, 23, 25, 53, 80, 110, 115, 135, 139, 143, 443, 445,
            1433, 3306, 3389, 5060, 8080} |->
        CASE p = 21 -> "ftp"      [] p = 22 -> "ssh"        [] p = 23 -> "telnet"
          [] p = 25 -> "smtp"     [] p = 53 -> "domain"     [] p = 80 -> "http"
          [] p = 110 -> "pop3"    [] p = 115 -> "sftp"      [] p = 135 -> "epmap"
          [] p = 139 -> "netbios-ssn" [] p = 143 -> "imap2" [] p = 443 -> "https"
          [] p = 445 -> "microsoft-ds" [] p = 1433 -> "ms-sql-s" [] p = 3306 -> "mysql"
          [] p = 3389 -> "ms-wbt-server" [] p = 5060 -> "sip" [] p = 8080 -> "http-alt"]

ServiceDatabases == {ServiceNames, <<>>}

\* requests.get(url, timeout=5) either raises or gives a response
WebAnswers == [{"https", "http"} -> {"raises", "response"}]

\* dict(response.headers)
headers(protocol) ==
    IF protocol = "https"
    THEN PyDict(<< Item(PyStr("Server"), PyStr("nginx")),
                   Item(PyStr("Strict-Transport-Security"), PyStr("max-age=63072000")) >>)
    ELSE PyDict(<< Item(PyStr("Server"), PyStr("nginx")),
                   Item(PyStr("Location"), PyStr("https://example.test/")) >>)

(***************************************************************************)
(* json.dump and json.load.  A JSON document is [string |-> s],            *)
(* [null |-> TRUE], [array |-> <<j, ...>>] or                              *)
(* [object |-> << [name |-> s, value |-> j], ... >>]: the name of a member *)
(* is always a string.                                                     *)
(***************************************************************************)
\* the member name json.dump writes for a dict key
MemberName(key) ==
    CASE DOMAIN key = {"str"}  -> key.str
      [] DOMAIN key = {"int"}  -> ToString(key.int)
      [] DOMAIN key = {"none"} -> "null"

RECURSIVE JsonDump(_)
JsonDump(x) ==
    CASE DOMAIN x = {"str"}  -> [string |-> x.str]
      [] DOMAIN x = {"none"} -> [null |-> TRUE]
      [] DOMAIN x = {"list"} -> [array |-> [i \in 1..Len(x.list) |-> JsonDump(x.list[i])]]
      [] DOMAIN x = {"dict"} ->
            [object |-> [i \in 1..Len(x.dict) |->
                [name |-> MemberName(x.dict[i].k), value |-> JsonDump(x.dict[i].v)]]]

RECURSIVE JsonLoad(_)
JsonLoad(j) ==
    CASE DOMAIN j = {"string"} -> PyStr(j.string)
      [] DOMAIN j = {"null"}   -> PyNone
      [] DOMAIN j = {"array"}  -> PyList([i \in 1..Len(j.array) |-> JsonLoad(j.array[i])])
      [] DOMAIN j = {"object"} ->
            PyDict([i \in 1..Len(j.object) |->
                Item(PyStr(j.object[i].name), JsonLoad(j.object[i].value))])

(***************************************************************************)
(* The state.                                                              *)
(***************************************************************************)
VARIABLES
    pc,            \* where the control thread is in main / run_recon
    target,        \* self.target
    output,        \* self.output
    ip,            \* run_recon's local ip
    raised,        \* the exception that ended the run, or "none"
    net,           \* what each probe of the running scan meets
    future,        \* the state of each future of executor.map
    cancelled,     \* whether result_iterator has raised and cancelled the rest
    sockets,       \* the tasks whose socket is open
    resolveCalls,  \* calls of socket.gethostbyname
    whoisCalls,    \* calls of whois.whois
    dnsQueries,    \* calls of dns.resolver.resolve, per record type
    attempts,      \* calls of sock.connect_ex, per task
    httpCalls,     \* calls of requests.get, per protocol
    file,          \* the JSON document written by save_results, or PyNone
    printed,       \* the final messages printed
    web,           \* what the requests of get_http_headers met
    overtaken,     \* whether a probe has ended before one of an earlier port
    dns,           \* the record types whose query was answered, once queried
    trace          \* the methods run_recon has called, in the order of the calls

vars == <<pc, target, output, ip, raised, net, future, cancelled, sockets,
          resolveCalls, whoisCalls, dnsQueries, attempts, httpCalls, file, printed,
          web, overtaken, dns, trace>>

poolVars == <<net, future, cancelled, sockets, attempts, overtaken>>

callVars == <<resolveCalls, whoisCalls, dnsQueries, httpCalls, web, dns>>

\* self.output["results"]
results == Get(output, PyStr("results"))

\* self.output["results"][key] = value
SetResult(out, key, value) ==
    SetItem(out, PyStr("results"), SetItem(Get(out, PyStr("results")), PyStr(key), value))

NoCalls(S) == [x \in S |-> 0]

\* run_recon fetching the headers before it scans the ports
run_recon_headers_first ==
    <<"get_ip", "get_whois", "get_dns_records", "get_http_headers", "scan_common_ports",
      "save_results">>

\* the calls of run_recon, in their order
run_recon ==
    <<"get_ip", "get_whois", "get_dns_records", "scan_common_ports", "get_http_headers",
      "save_results">>

\* where run_recon goes when the method returns
after(method) ==
    LET i == CHOOSE k \in 1..Len(run_recon) : run_recon[k] = method
    IN  IF i < Len(run_recon) THEN run_recon[i + 1] ELSE "done"

\* OsintTool.__init__
Init ==
    /\ pc = "set_target"
    /\ target = PyNone
    /\ output = PyDict(<<>>)
    /\ ip = PyNone
    /\ raised = "none"
    /\ net = <<>>
    /\ future = <<>>
    /\ cancelled = FALSE
    /\ sockets = {}
    /\ resolveCalls = 0
    /\ whoisCalls = 0
    /\ dnsQueries = NoCalls({record_types[i] : i \in 1..Len(record_types)})
    /\ attempts = NoCalls(Tasks)
    /\ httpCalls = NoCalls({"https", "http"})
    /\ file = PyNone
    /\ printed = {}
    /\ web = <<>>
    /\ overtaken = FALSE
    /\ dns = <<>>
    /\ trace = <<>>

\* main: tool.set_target(args.target)
set_target ==
    /\ pc = "set_target"
    /\ \E t \in Targets :
        /\ target' = PyStr(t)
        /\ output' = PyDict(<< Item(PyStr("target"), PyStr(t)),
                               Item(PyStr("results"), PyDict(<<>>)) >>)
    /\ pc' = run_recon[1]
    /\ UNCHANGED <<ip, raised, poolVars, callVars, file, printed, trace>>

\* get_ip recording an ip_address entry for an address target as well
get_ip_records_literal ==
    /\ pc = "get_ip"
    /\ IF is_ip_address(target.str)
       THEN /\ output' = SetResult(output, "ip_address", target)
            /\ ip' = target
            /\ pc' = after("get_ip")
            /\ UNCHANGED <<raised, resolveCalls>>
       ELSE /\ resolveCalls' = resolveCalls + 1
            /\ \E answer \in gethostbyname(target.str) :
                 CASE answer = "gaierror" ->
                        /\ output' = SetResult(output, "ip_address", PyStr("Not found"))
                        /\ ip' = PyNone
                        /\ pc' = after("get_ip")
                        /\ UNCHANGED raised
                   [] answer = "UnicodeError" ->
                        /\ raised' = "UnicodeError in gethostbyname"
                        /\ pc' = "error"
                        /\ UNCHANGED <<output, ip>>
                   [] OTHER ->
                        /\ output' = SetResult(output, "ip_address", PyStr(answer))
                        /\ ip' = PyStr(answer)
                        /\ pc' = after("get_ip")
                        /\ UNCHANGED raised
    /\ trace' = Append(trace, "get_ip")
    /\ UNCHANGED <<target, poolVars, whoisCalls, dnsQueries, httpCalls, web, dns, file,
                   printed>>

\* get_ip, as called by run_recon
get_ip ==
    /\ pc = "get_ip"
    /\ IF is_ip_address(target.str)
       THEN /\ ip' = target
            /\ pc' = after("get_ip")
            /\ UNCHANGED <<output, raised, resolveCalls>>
       ELSE /\ resolveCalls' = resolveCalls + 1
            /\ \E answer \in gethostbyname(target.str) :
                 CASE answer = "gaierror" ->
                        /\ output' = SetResult(output, "ip_address", PyStr("Not found"))
                        /\ ip' = PyNone
                        /\ pc' = after("get_ip")
                        /\ UNCHANGED raised
                   [] answer = "UnicodeError" ->
                        /\ raised' = "UnicodeError in gethostbyname"
                        /\ pc' = "error"
                        /\ UNCHANGED <<output, ip>>
                   [] OTHER ->
                        /\ output' = SetResult(output, "ip_address", PyStr(answer))
                        /\ ip' = PyStr(answer)
                        /\ pc' = after("get_ip")
                        /\ UNCHANGED raised
    /\ trace' = Append(trace, "get_ip")
    /\ UNCHANGED <<target, poolVars, whoisCalls, dnsQueries, httpCalls, web, dns, file,
                   printed>>

\* get_whois
get_whois ==
    /\ pc = "get_whois"
    /\ whoisCalls' = whoisCalls + 1
    /\ \E answer \in WhoisAnswers :
        output' = SetResult(output, "whois",
                            IF answer = "found" THEN simplified_whois
                                                ELSE PyStr("Lookup failed"))
    /\ pc' = after("get_whois")
    /\ trace' = Append(trace, "get_whois")
    /\ UNCHANGED <<target, ip, raised, poolVars, resolveCalls, dnsQueries, httpCalls, web,
                   dns, file, printed>>

\* the loop ended by the first query that fails
RECURSIVE dns_loop_stop(_, _, _)
dns_loop_stop(i, answered, st) ==
    IF i > Len(record_types) THEN st
    ELSE LET record_type == record_types[i]
             queried == [st.queries EXCEPT ![record_type] = @ + 1]
         IN  IF record_type \in answered
             THEN dns_loop_stop(i + 1, answered,
                           [dns_results |-> SetItem(st.dns_results, PyStr(record_type),
                                                    records(record_type)),
                            queries |-> queried])
             ELSE [st EXCEPT !.queries = queried]

\* the loop of get_dns_records over record_types[i..]: st holds dns_results
\* and the queries made so far
RECURSIVE dns_loop(_, _, _)
dns_loop(i, answered, st) ==
    IF i > Len(record_types) THEN st
    ELSE LET record_type == record_types[i]
             queried == [st.queries EXCEPT ![record_type] = @ + 1]
         IN  IF record_type \in answered
             THEN dns_loop(i + 1, answered,
                           [dns_results |-> SetItem(st.dns_results, PyStr(record_type),
                                                    records(record_type)),
                            queries |-> queried])
             ELSE dns_loop(i + 1, answered, [st EXCEPT !.queries = queried])

\* get_dns_records
get_dns_records ==
    /\ pc = "get_dns_records"
    /\ IF is_ip_address(target.str)
       THEN /\ output' = SetResult(output, "dns_records", PyStr("Skipped for IP address"))
            /\ UNCHANGED <<dnsQueries, dns>>
       ELSE \E answered \in DnsAnswerSets :
              LET st == dns_loop(1, answered,
                                 [dns_results |-> PyDict(<<>>), queries |-> dnsQueries])
              IN  /\ output' = SetResult(output, "dns_records", st.dns_results)
                  /\ dnsQueries' = st.queries
                  /\ dns' = answered
    /\ pc' = after("get_dns_records")
    /\ trace' = Append(trace, "get_dns_records")
    /\ UNCHANGED <<target, ip, raised, poolVars, resolveCalls, whoisCalls, httpCalls, web,
                   file, printed>>

(***************************************************************************)
(* scan_common_ports.  The control thread submits one task per port        *)
(* (executor.map), the worker threads of the pool take the tasks in the    *)
(* order of submission and run check_port, and the control thread takes    *)
(* the results in the order of submission (list(...)), leaves the with     *)
(* block when every worker thread has ended, and builds open_ports.        *)
(***************************************************************************)
Running(fut) == {i \in DOMAIN fut : fut[i] = "RUNNING"}

Pending(fut) == {i \in DOMAIN fut : fut[i] = "PENDING"}

\* a thread of the pool is free to take a task
IdleWorker(fut) == Cardinality(Running(fut)) < max_workers

\* the task at the head of the pool's work queue
NextTask(fut) == CHOOSE i \in Pending(fut) : \A j \in Pending(fut) : i <= j

\* check_port taking every result but a refusal for an open port
check_port_not_refused(port, outcome) == <<port, connect_ex(outcome) # 111>>

\* the value check_port returns
check_port(port, outcome) == <<port, connect_ex(outcome) = 0>>

\* list(executor.map(lambda p: check_port(p), common_ports)): the results,
\* in the order of the ports submitted
map_results(ports, n) == [i \in 1..Len(ports) |-> check_port(ports[i], n[i])]

\* socket.getservbyport(port) with its except clause
service_of(port, db) == IF port \in DOMAIN db THEN db[port] ELSE "unknown"

\* the loop over results[i..] that fills open_ports
RECURSIVE open_ports_loop(_, _, _, _)
open_ports_loop(i, res, db, open_ports) ==
    IF i > Len(res) THEN open_ports
    ELSE open_ports_loop(i + 1, res, db,
            IF res[i][2]
            THEN SetItem(open_ports, PyInt(res[i][1]), PyStr(service_of(res[i][1], db)))
            ELSE open_ports)

\* scan_common_ports up to the submission of the tasks
scan_common_ports ==
    /\ pc = "scan_common_ports"
    /\ IF ip = PyNone
       THEN /\ output' = SetResult(output, "port_scan",
                                   PyStr("Skipped due to DNS resolution failure"))
            /\ pc' = after("scan_common_ports")
            /\ UNCHANGED <<net, future>>
       ELSE /\ \E n \in Networks(ip.str) : net' = n
            /\ future' = [i \in Tasks |-> "PENDING"]
            /\ pc' = "executor"
            /\ UNCHANGED output
    /\ trace' = Append(trace, "scan_common_ports")
    /\ UNCHANGED <<target, ip, raised, cancelled, sockets, attempts, overtaken, callVars,
                   file, printed>>

\* a worker thread takes the next task and runs check_port up to the call
\* of connect_ex
check_port_start ==
    /\ pc = "executor"
    /\ Pending(future) # {}
    /\ IdleWorker(future)
    /\ LET i == NextTask(future)
       IN  IF net[i] = "EMFILE"
           THEN /\ future' = [future EXCEPT ![i] = "RAISED"]
                /\ UNCHANGED <<sockets, attempts>>
           ELSE /\ future' = [future EXCEPT ![i] = "RUNNING"]
                /\ sockets' = sockets \cup {i}
                /\ attempts' = [attempts EXCEPT ![i] = @ + 1]
    /\ UNCHANGED <<pc, target, output, ip, raised, net, cancelled, overtaken, callVars,
                   file, printed, trace>>

\* check_port storing an open port in self.output from the worker thread
check_port_finish_shared(i) ==
    /\ pc = "executor"
    /\ future[i] = "RUNNING"
    /\ IF Raises(net[i])
       THEN /\ future' = [future EXCEPT ![i] = "RAISED"]
            /\ UNCHANGED <<sockets, output>>
       ELSE /\ future' = [future EXCEPT ![i] = "RETURNED"]
            /\ sockets' = sockets \ {i}
            /\ output' = IF connect_ex(net[i]) = 0
                         THEN SetResult(output, "port_scan",
                                PyDict(<<Item(PyInt(ScannedPorts[i]), PyStr("unknown"))>>))
                         ELSE output
    /\ overtaken' = (overtaken \/ \E j \in 1..(i-1) : future[j] = "RUNNING")
    /\ UNCHANGED <<pc, target, ip, raised, net, cancelled, attempts, callVars,
                   file, printed, trace>>

\* connect_ex returns or raises in a worker thread, and check_port ends
check_port_finish(i) ==
    /\ pc = "executor"
    /\ future[i] = "RUNNING"
    /\ IF Raises(net[i])
       THEN /\ future' = [future EXCEPT ![i] = "RAISED"]
            /\ UNCHANGED sockets
       ELSE /\ future' = [future EXCEPT ![i] = "RETURNED"]
            /\ sockets' = sockets \ {i}
    /\ overtaken' = (overtaken \/ \E j \in 1..(i-1) : future[j] = "RUNNING")
    /\ UNCHANGED <<pc, target, output, ip, raised, net, cancelled, attempts, callVars,
                   file, printed, trace>>

\* the futures whose result list(...) has taken: those before the first one
\* that has not returned
Taken(fut) == {i \in DOMAIN fut : \A j \in 1..i : fut[j] = "RETURNED"}

\* list(...) meets a task that raised: the iterator cancels the futures not
\* yet started and the exception leaves the with block
result_iterator_raise ==
    /\ pc = "executor"
    /\ ~cancelled
    /\ \E i \in Tasks :
        /\ future[i] = "RAISED"
        /\ (i - 1) \in Taken(future) \cup {0}
        /\ raised' = IF net[i] = "EMFILE" THEN "OSError in socket" ELSE "gaierror in connect_ex"
    /\ cancelled' = TRUE
    /\ future' = [i \in Tasks |-> IF future[i] = "PENDING" THEN "CANCELLED" ELSE future[i]]
    /\ UNCHANGED <<pc, target, output, ip, net, sockets, attempts, overtaken, callVars,
                   file, printed, trace>>

\* the executor left without waiting for its worker threads
executor_exit_no_wait ==
    /\ pc = "executor"
    /\ IF cancelled
       THEN /\ pc' = "error"
            /\ UNCHANGED output
       ELSE /\ Taken(future) = Tasks
            /\ \E db \in ServiceDatabases :
                 output' = SetResult(output, "port_scan",
                              open_ports_loop(1, map_results(ScannedPorts, net), db,
                                              PyDict(<<>>)))
            /\ pc' = after("scan_common_ports")
    /\ UNCHANGED <<target, ip, raised, poolVars, callVars, file, printed, trace>>

\* the with block ends (shutdown(wait=True)) once no worker thread has work;
\* after an exception scan_common_ports and run_recon end with it, otherwise
\* scan_common_ports builds open_ports and stores it
executor_exit ==
    /\ pc = "executor"
    /\ Running(future) = {}
    /\ IF cancelled
       THEN /\ pc' = "error"
            /\ UNCHANGED output
       ELSE /\ Taken(future) = Tasks
            /\ \E db \in ServiceDatabases :
                 output' = SetResult(output, "port_scan",
                              open_ports_loop(1, map_results(ScannedPorts, net), db,
                                              PyDict(<<>>)))
            /\ pc' = after("scan_common_ports")
    /\ UNCHANGED <<target, ip, raised, poolVars, callVars, file, printed, trace>>

\* get_http_headers.protocols
protocols == <<"https", "http">>

\* the loop without its break: every protocol is requested
RECURSIVE headers_loop_no_break(_, _, _)
headers_loop_no_break(i, answers, st) ==
    IF i > Len(protocols) THEN st
    ELSE LET protocol == protocols[i]
             requested == [st.calls EXCEPT ![protocol] = @ + 1]
         IN  IF answers[protocol] = "response"
             THEN headers_loop_no_break(i + 1, answers,
                    [out |-> SetResult(st.out, protocol \o "_headers", headers(protocol)),
                     calls |-> requested])
             ELSE headers_loop_no_break(i + 1, answers, [st EXCEPT !.calls = requested])

\* the loop ended by the first request that fails
RECURSIVE headers_loop_give_up(_, _, _)
headers_loop_give_up(i, answers, st) ==
    IF i > Len(protocols) THEN st
    ELSE LET protocol == protocols[i]
             requested == [st.calls EXCEPT ![protocol] = @ + 1]
         IN  IF answers[protocol] = "response"
             THEN [out |-> SetResult(st.out, protocol \o "_headers", headers(protocol)),
                   calls |-> requested]
             ELSE [st EXCEPT !.calls = requested]

\* the loop of get_http_headers over protocols[i..]: st holds self.output and
\* the requests made so far
RECURSIVE headers_loop(_, _, _)
headers_loop(i, answers, st) ==
    IF i > Len(protocols) THEN st
    ELSE LET protocol == protocols[i]
             requested == [st.calls EXCEPT ![protocol] = @ + 1]
         IN  IF answers[protocol] = "response"
             THEN [out |-> SetResult(st.out, protocol \o "_headers", headers(protocol)),
                   calls |-> requested]
             ELSE headers_loop(i + 1, answers, [st EXCEPT !.calls = requested])

\* get_http_headers
get_http_headers ==
    /\ pc = "get_http_headers"
    /\ \E answers \in WebAnswers :
        LET st == headers_loop(1, answers, [out |-> output, calls |-> httpCalls])
        IN  /\ output' = st.out
            /\ httpCalls' = st.calls
            /\ web' = answers
    /\ pc' = after("get_http_headers")
    /\ trace' = Append(trace, "get_http_headers")
    /\ UNCHANGED <<target, ip, raised, poolVars, resolveCalls, whoisCalls, dnsQueries, dns,
                   file, printed>>

\* save_results and the end of run_recon
save_results ==
    /\ pc = "save_results"
    /\ \E written \in BOOLEAN :
        IF written
        THEN /\ file' = JsonDump(output)
             /\ printed' = {"Results saved", "Reconnaissance completed"}
             /\ pc' = after("save_results")
             /\ UNCHANGED raised
        ELSE /\ raised' = "OSError in open"
             /\ pc' = "error"
             /\ UNCHANGED <<file, printed>>
    /\ trace' = Append(trace, "save_results")
    /\ UNCHANGED <<target, output, ip, poolVars, callVars>>

Next ==
    \/ set_target
    \/ get_ip
    \/ get_whois
    \/ get_dns_records
    \/ scan_common_ports
    \/ check_port_start
    \/ \E i \in Tasks : check_port_finish(i)
    \/ result_iterator_raise
    \/ executor_exit
    \/ get_http_headers
    \/ save_results

Spec == Init /\ [][Next]_vars

(***************************************************************************)
(* Properties.                                                             *)
(***************************************************************************)
\* the stages of run_recon, in the order of the calls
Stages == <<"set_target", "get_ip", "get_whois", "get_dns_records", "scan_common_ports",
            "executor", "get_http_headers", "save_results", "done">>

\* the control thread has gone past the stage: it is at a later one, or the
\* run has ended with an exception raised in a later one
StageOf(p) == CHOOSE i \in 1..Len(Stages) : Stages[i] = p

RaisedIn ==
    CASE raised = "UnicodeError in gethostbyname" -> "get_ip"
      [] raised \in {"OSError in socket", "gaierror in connect_ex"} -> "executor"
      [] raised = "OSError in open" -> "save_results"
      [] OTHER -> "done"

Past(stage) ==
    IF pc = "error" THEN StageOf(RaisedIn) > StageOf(stage) ELSE StageOf(pc) > StageOf(stage)

\* the entries of self.output["results"]
Has(key) == HasKey(output, PyStr("results")) /\ HasKey(results, PyStr(key))

Entry(key) == Get(results, PyStr(key))

\* the scan has been left, by return or by exception
ScanOver == future # <<>> /\ pc # "executor"

\* the elements of a set of numbers in ascending order
RECURSIVE Ascending(_)
Ascending(S) ==
    IF S = {} THEN <<>>
    ELSE LET m == CHOOSE x \in S : \A y \in S : x <= y
         IN  <<m>> \o Ascending(S \ {m})

\* the ports of the list whose connection attempt met an open port
OpenPorts == {common_ports[i] : i \in {j \in DOMAIN net : net[j] = "open"}}

\* the port_scan mapping of the open ports in ascending order, for a services
\* database
AscendingScan(db) ==
    LET ports == Ascending(OpenPorts)
    IN  PyDict([i \in 1..Len(ports) |->
                   Item(PyInt(ports[i]), PyStr(service_of(ports[i], db)))])

\* C1: during the scan at most 10 connection attempts are in flight
\* (started and not yet finished) in every reachable state.
C1_AtMostTenInFlight == Cardinality(Running(future)) <= 10

\* C1 witness: ten attempts are in flight while a later port still waits
C1_Witness == Cardinality(Running(future)) = 10 /\ Pending(future) # {}

\* C2: whatever the order in which the attempts completed, a port_scan
\* mapping written by the scan lists exactly the open ports, in ascending
\* port order, and is determined by the connect outcomes (and the services
\* database) alone.
C2_AscendingWhateverOrder ==
    (Has("port_scan") /\ IsDict(Entry("port_scan")))
        => \E db \in ServiceDatabases : Entry("port_scan") = AscendingScan(db)

\* C2 witness: two open ports were written after a probe had ended before
\* the probe of an earlier port
C2_Witness ==
    /\ Has("port_scan") /\ IsDict(Entry("port_scan"))
    /\ Len(Entry("port_scan").dict) = 2
    /\ overtaken

\* C3: for a hostname whose resolution fails no connection is attempted and
\* the report of the ended run has ip_address = "Not found" and
\* port_scan = "Skipped due to DNS resolution failure".
C3_UnresolvedSkipsScan ==
    (pc \notin {"set_target", "get_ip"} /\ resolveCalls = 1 /\ ip = PyNone)
        => /\ \A i \in Tasks : attempts[i] = 0
           /\ pc \in {"done", "error"}
                => /\ Has("ip_address") /\ Entry("ip_address") = PyStr("Not found")
                   /\ Has("port_scan")
                   /\ Entry("port_scan") = PyStr("Skipped due to DNS resolution failure")

\* C4: when the scan is over, whatever way the attempts on some ports
\* failed, port_scan is recorded and holds the open ports: no port's error
\* aborts the scan.
C4_PortFailuresIndependent ==
    ScanOver => /\ Has("port_scan") /\ IsDict(Entry("port_scan"))
                /\ \A p \in OpenPorts :
                     \E i \in 1..Len(Entry("port_scan").dict) :
                        Entry("port_scan").dict[i].k = PyInt(p)

\* C5: in a scan every port is attempted exactly once and ends in one
\* terminal state with a result; no port is attempted twice.
C5_EachPortOnce ==
    /\ \A i \in Tasks : attempts[i] <= 1
    /\ ScanOver => \A i \in Tasks : attempts[i] = 1 /\ future[i] = "RETURNED"

\* C6: no failure of a collector ends the run: a run ends with an error only
\* when the write of save_results failed.
C6_OnlyWriteFailureEndsRun == pc = "error" => raised = "OSError in open"

\* C7: every persisted report has an ip_address, a whois, a dns_records and
\* a port_scan entry and an entry for the HTTP headers.
C7_EveryCheckTagged ==
    file # PyNone =>
        LET saved == Get(JsonLoad(file), PyStr("results"))
        IN  /\ \A key \in {"ip_address", "whois", "dns_records", "port_scan"} :
                 HasKey(saved, PyStr(key))
            /\ HasKey(saved, PyStr("https_headers")) \/ HasKey(saved, PyStr("http_headers"))

\* C8: if the https request succeeded, no http request is made in the run
\* and the report holds the https headers only.
C8_HttpsFirstThenStop ==
    (web # <<>> /\ web["https"] = "response")
        => /\ httpCalls["https"] = 1 /\ httpCalls["http"] = 0
           /\ Has("https_headers") /\ Entry("https_headers") = headers("https")
           /\ ~Has("http_headers")

\* C8 witness: https answered although http would have answered too
C8_Witness ==
    /\ pc = "done"
    /\ web["https"] = "response" /\ web["http"] = "response"
    /\ Has("https_headers")

\* an IPv4 literal as the claim has it: four groups of one to three digits
FourDigitGroups(t) ==
    LET L == Labels(Chars(t))
    IN  /\ Len(L) = 4
        /\ \A i \in 1..4 : Len(L[i]) \in 1..3 /\ \A k \in 1..Len(L[i]) : L[i][k] \in Digits

\* C9: for an IPv4-literal target (no range check) the run makes no
\* resolution call and no DNS query, makes the WHOIS lookup exactly once,
\* hands the target unchanged to the port prober, and records
\* dns_records = "Skipped for IP address".
C9_LiteralSkipsLookups ==
    (target # PyNone /\ FourDigitGroups(target.str))
        => /\ resolveCalls = 0
           /\ \A t \in DOMAIN dnsQueries : dnsQueries[t] = 0
           /\ whoisCalls = (IF Past("get_whois") THEN 1 ELSE 0)
           /\ Past("get_ip") => ip = target
           /\ Past("get_dns_records")
                => Has("dns_records") /\ Entry("dns_records") = PyStr("Skipped for IP address")

\* C9 witness: the scan of 999.999.999.999 has begun to connect
C9_Witness ==
    /\ target = PyStr("999.999.999.999")
    /\ pc = "executor"
    /\ \E i \in Tasks : attempts[i] = 1

\* C10: the persisted document parses back to a value identical to the
\* in-memory report.
C10_RoundTrip == file # PyNone => JsonLoad(file) = output

\* C11: for a hostname target get_ip makes exactly one resolution call; on
\* any resolution failure it returns None and records
\* ip_address = "Not found", and no exception reaches run_recon.
C11_AnyResolutionFailureCaught ==
    (target # PyNone /\ ~FourDigitGroups(target.str) /\ pc \notin {"set_target", "get_ip"})
        => /\ resolveCalls = 1
           /\ raised # "UnicodeError in gethostbyname"
           /\ ip = PyNone => Has("ip_address") /\ Entry("ip_address") = PyStr("Not found")

\* C12: a failed write ends the run in error, with no file and neither final
\* message printed, and no other failure ends the run in error.
C12_OnlyPersistFailureSurfaces ==
    /\ raised = "OSError in open" => pc = "error" /\ file = PyNone /\ printed = {}
    /\ pc = "error" => raised = "OSError in open"

\* the order of the stages as the claim has it
FixedOrder ==
    <<"get_ip", "get_whois", "get_dns_records", "scan_common_ports", "get_http_headers",
      "save_results">>

IsPrefix(a, b) == Len(a) <= Len(b) /\ a = SubSeq(b, 1, Len(a))

\* C13: the stages run in the fixed order resolve, registration, dns, ports,
\* headers, persist; probes run only during the ports stage, none is left
\* when an HTTP request has been made or the report written, and the report
\* is written once, after every other stage.
C13_StagesInOrder ==
    /\ IsPrefix(trace, FixedOrder)
    /\ (Running(future) # {} \/ Pending(future) # {})
          => trace # <<>> /\ trace[Len(trace)] = "scan_common_ports"
    /\ (httpCalls["https"] > 0 \/ file # PyNone)
          => /\ Running(future) = {} /\ Pending(future) = {}
             /\ Has("port_scan")
    /\ file # PyNone => trace = FixedOrder /\ pc = "done"

\* C13 witness: a run that scanned the ports has written its report
C13_Witness == pc = "done" /\ file # PyNone /\ \E i \in Tasks : attempts[i] = 1

\* C14: a probe that has reported its result or its exception has closed
\* its socket, and no socket of the scan is open once the scan is over.
C14_SocketsClosed ==
    /\ \A i \in DOMAIN future : future[i] \in {"RETURNED", "RAISED"} => i \notin sockets
    /\ ScanOver => sockets = {}

\* C15: self.output is written by the control thread only (never by a step
\* that leaves the control thread where it is), and port_scan is written
\* when no connection attempt of the scan is running or still to start.
C15_ReportWrittenByControlThread ==
    /\ [][output' # output => pc' # pc]_vars
    /\ [](Has("port_scan") => Running(future) = {} /\ Pending(future) = {})

\* C15 witness: a scan that found an open port has stored port_scan
C15_Witness ==
    /\ Has("port_scan") /\ IsDict(Entry("port_scan"))
    /\ Len(Entry("port_scan").dict) >= 1
    /\ overtaken

\* C16: a failed https request is followed by exactly one http request; if
\* both fail no headers entry is recorded and the run goes on to
\* save_results; the report never holds both headers entries and holds
\* http_headers only if the https request failed.
C16_HttpFallback ==
    /\ ~(Has("https_headers") /\ Has("http_headers"))
    /\ Has("http_headers") => web["https"] = "raises"
    /\ (trace # <<>> /\ trace[Len(trace)] \in {"get_http_headers", "save_results"}
        /\ web["https"] = "raises")
          => /\ httpCalls["https"] = 1 /\ httpCalls["http"] = 1
             /\ ~Has("https_headers")
             /\ Has("http_headers") <=> web["http"] = "response"
             /\ raised \in {"none", "OSError in open"}
             /\ pc \in {"save_results", "done", "error"}

\* C16 witness: both requests failed and the report was written all the same
C16_Witness ==
    /\ pc = "done" /\ file # PyNone
    /\ web["https"] = "raises" /\ web["http"] = "raises"

\* C17: for a hostname target each of the seven record types is queried
\* exactly once, and the keys of dns_records are exactly the types whose
\* query was answered (none when no query was).
C17_OneQueryPerType ==
    (target # PyNone /\ ~FourDigitGroups(target.str) /\ Past("get_dns_records"))
        => /\ \A t \in {"A", "AAAA", "MX", "NS", "TXT", "SOA", "CNAME"} : dnsQueries[t] = 1
           /\ Has("dns_records") /\ IsDict(Entry("dns_records"))
           /\ {Entry("dns_records").dict[i].k : i \in 1..Len(Entry("dns_records").dict)}
                 = {PyStr(t) : t \in dns}
           /\ dns = {} => Entry("dns_records") = PyDict(<<>>)

\* C17 witness: two of the seven queries failed, between queries that did not
C17_Witness ==
    /\ pc = "done"
    /\ target = PyStr("example.test")
    /\ dns = {"A", "MX", "NS", "TXT", "SOA"}

\* C18: the keys of a port_scan mapping are exactly the ports whose
\* connection attempt succeeded, and each carries its service name, or
\* "unknown" when the services database has none.
C18_OpenPortsExactly ==
    (Has("port_scan") /\ IsDict(Entry("port_scan")))
        => LET d == Entry("port_scan").dict
           IN  /\ {d[i].k : i \in 1..Len(d)} = {PyInt(p) : p \in OpenPorts}
               /\ \E db \in ServiceDatabases :
                    \A i \in 1..Len(d) :
                       d[i].v = PyStr(IF d[i].k.int \in DOMAIN db THEN db[d[i].k.int]
                                                                  ELSE "unknown")

\* C18 witness: one port timed out, another was open and has no service name
C18_Witness ==
    /\ Has("port_scan") /\ IsDict(Entry("port_scan"))
    /\ \E i \in DOMAIN net : net[i] = "timeout"
    /\ \E i \in 1..Len(Entry("port_scan").dict) :
          Entry("port_scan").dict[i].v = PyStr("unknown")

\* C19: once scan_common_ports has returned or raised, no connection attempt
\* is running and none is left to start; after a probe has raised, the
\* cancelled attempts were never started and are never started later, and
\* the started ones have ended.
C19_ScanLeavesNothingRunning ==
    /\ [](ScanOver => /\ Running(future) = {} /\ Pending(future) = {}
                      /\ \A i \in DOMAIN future :
                            future[i] \in {"RETURNED", "RAISED", "CANCELLED"})
    /\ [](\A i \in DOMAIN future : future[i] = "CANCELLED" => attempts[i] = 0)
    /\ [][\A i \in DOMAIN future : future[i] = "CANCELLED" => future'[i] = "CANCELLED"]_vars

\* C19 witness: the scan raised after a later probe had run to its end and
\* while the last port had not been started
C19_Witness ==
    /\ pc = "error" /\ cancelled
    /\ future[2] = "RAISED" /\ future[3] = "RETURNED"
    /\ future[NumScanned] = "CANCELLED"

\* the results of the persisted report
Saved == Get(JsonLoad(file), PyStr("results"))

\* C20: in a persisted report port_scan is the skip marker exactly when
\* ip_address is "Not found", dns_records is the skip marker exactly when
\* there is no ip_address entry, and the two markers never occur together.
C20_SkipMarkersAgree ==
    file # PyNone =>
        LET portSkip == Get(Saved, PyStr("port_scan"))
                           = PyStr("Skipped due to DNS resolution failure")
            dnsSkip  == Get(Saved, PyStr("dns_records")) = PyStr("Skipped for IP address")
            hasIp    == HasKey(Saved, PyStr("ip_address"))
        IN  /\ portSkip <=> (hasIp /\ Get(Saved, PyStr("ip_address")) = PyStr("Not found"))
            /\ dnsSkip <=> ~hasIp
            /\ ~(portSkip /\ dnsSkip)

\* C20 witness: the report of an unresolved hostname has been written
C20_Witness ==
    /\ file # PyNone
    /\ Get(Saved, PyStr("port_scan")) = PyStr("Skipped due to DNS resolution failure")
====
